---- MODULE Spec2Model ----
(***************************************************************************)
(* Model of the telemetry gateway, random_forest_model/data_pipeline.py:   *)
(* the start-up script (artifact load, broker connect, loop_forever), the  *)
(* MQTT callbacks on_connect and on_message, and save_to_database.         *)
(*                                                                         *)
(* Numbers.  Python floats are kept on fixed-point grids:                  *)
(*   - the result of map_value is an integer count of 1/GasScale units,    *)
(*     rounded to the nearest grid point (half to even), the way the float *)
(*     division rounds to the nearest double;                              *)
(*   - a probability is an integer count of 1/ProbDen units, and           *)
(*     fire_risk_percent = probability * 100 is a count of 1/ProbDen       *)
(*     percent, so that the literal 50 of the code is 50 * ProbDen.        *)
(***************************************************************************)
EXTENDS Integers, Sequences, FiniteSets, TLC

(* ------------------------------ bounds --------------------------------- *)
MaxMsgs == 2          \* messages the broker delivers in one run
GasScale == 100       \* grid of the calibrated value: 1/GasScale
HalfProb == 50        \* grid of a probability: 1/(2 * HalfProb)

ProbDen == 2 * HalfProb

(* ------------------------- JSON values --------------------------------- *)
\* A decoded JSON value: a number, a string or null.  Every value has the
\* same three fields so that any two of them can be compared.
Num(n) == [t |-> "num", n |-> n, s |-> ""]
Str(s) == [t |-> "str", n |-> 0, s |-> s]
Null == [t |-> "null", n |-> 0, s |-> ""]
Unbound == [t |-> "unbound", n |-> 0, s |-> ""]

\* Mutant of IsNum: None counts as the number 0.
IsNumOrNull(v) == v.t \in {"num", "null"}

IsNum(v) == v.t = "num"

Absent == [t |-> "absent", n |-> 0, s |-> ""]

Keys == {"node_id", "raw_gas", "temp", "humidity"}

\* An MQTT payload.  kind = "garbage": bytes that are no JSON text;
\* kind = "array": the JSON text of a list; kind = "object": the JSON text of
\* an object, obj[k] being its member k, or Absent if it has no member k.
NoMembers == [k \in Keys |-> Absent]
Garbage == [kind |-> "garbage", obj |-> NoMembers]
Array == [kind |-> "array", obj |-> NoMembers]
Object(node_id, raw_gas, temp, humidity) ==
    [kind |-> "object",
     obj |-> [k \in Keys |->
        CASE k = "node_id" -> node_id
          [] k = "raw_gas" -> raw_gas
          [] k = "temp" -> temp
          [] k = "humidity" -> humidity]]

EmptyObject == Object(Absent, Absent, Absent, Absent)
FullMid == Object(Str("n1"), Num(2048), Num(25), Num(40))
NullGas == Object(Str("n1"), Null, Num(25), Num(40))
TextTemp == Object(Str("n1"), Num(2048), Str("abc"), Num(40))

Payloads == {Garbage, Array, EmptyObject, FullMid, NullGas, TextTemp}

(* ------------------------- pure helpers -------------------------------- *)
\* Nearest integer to a / b for a >= 0, b > 0, ties to the even neighbour.
RoundDiv(a, b) ==
    LET q == a \div b
        r == a % b
    IN  IF 2 * r < b THEN q
        ELSE IF 2 * r > b THEN q + 1
        ELSE IF q % 2 = 0 THEN q ELSE q + 1

\* Mutant of map_value: the input range counted as in_max - in_min + 1 values.
map_value_count(x, in_min, in_max, out_min, out_max) ==
    RoundDiv((x - in_min) * (out_max - out_min) * GasScale, in_max - in_min + 1)
        + out_min * GasScale

map_value(x, in_min, in_max, out_min, out_max) ==
    RoundDiv((x - in_min) * (out_max - out_min) * GasScale, in_max - in_min)
        + out_min * GasScale

\* Mutant of Get: data[key] with no default.
GetStrict(data, key, default) == data.obj[key]

\* dict.get(key, default): the member if the key is present (null included),
\* the default only if the key is absent.
Get(data, key, default) ==
    IF data.obj[key] # Absent THEN data.obj[key] ELSE default

\* fire_risk_percent = probability[0][1] * 100
RiskPercent(probability) == probability * 100

\* Mutant of StatusLabel: the threshold compared with >=.
StatusLabelAtLeast(prediction, fire_risk_percent) ==
    IF prediction = 1 THEN "CRITICAL"
    ELSE IF fire_risk_percent >= 50 * ProbDen THEN "WARNING"
    ELSE "SAFE"

StatusLabel(prediction, fire_risk_percent) ==
    IF prediction = 1 THEN "CRITICAL"
    ELSE IF fire_risk_percent > 50 * ProbDen THEN "WARNING"
    ELSE "SAFE"

(* --------------------------- the classifier ---------------------------- *)
\* What predict / predict_proba of the loaded artifact can answer for one
\* feature vector: the label and the probability of the positive class.
\* The artifact is opaque: any label goes with any probability.
Outcome(prediction, probability) ==
    [prediction |-> prediction, probability |-> probability]

Outcomes ==
    { Outcome(0, 0), Outcome(0, HalfProb), Outcome(0, HalfProb + 1),
      Outcome(1, 0), Outcome(1, ProbDen) }

(* ------------------------------ state ---------------------------------- *)
VARIABLES
    main_pc,        \* position of the script: load_model, connect, loop_forever, terminated
    exit_reason,    \* why the script ended ("" while it runs)
    model_loaded,   \* joblib.load returned an artifact
    model,          \* answers the artifact has given so far: a set of [features, outcome]
    mqtt,           \* channel: disconnected, awaiting_connack, connected, reconnecting
    subscribed,     \* the broker holds a subscription to MQTT_TOPIC for this client
    hpc,            \* position inside on_message / save_to_database ("idle" outside)
    loc,            \* local variables of the running on_message call
    db_open,        \* MySQL connections opened by save_to_database and not closed
    sensor_logs,    \* committed rows of table sensor_logs
    hist,           \* one entry per delivered message: what on_message did with it
    session,        \* web front end: the Flask session the browser's cookie carries
    debug,          \* web front end: the application runs in debug mode
    req             \* web front end: the last request and how it was answered

vars ==
    << main_pc, exit_reason, model_loaded, model, mqtt, subscribed,
       hpc, loc, db_open, sensor_logs, hist, session, debug, req >>

main_vars == << main_pc, exit_reason, model_loaded >>
chan_vars == << mqtt, subscribed >>
db_vars == << db_open, sensor_logs >>
web_vars == << session, debug, req >>
gateway_vars ==
    << main_pc, exit_reason, model_loaded, model, mqtt, subscribed,
       hpc, loc, db_open, sensor_logs, hist >>

\* The arguments of one save_to_database call.
Row(node, temp, hum, smoke, risk, status) ==
    [node |-> node, temp |-> temp, hum |-> hum, smoke |-> smoke,
     risk |-> risk, status |-> status]

NoRow == Row(Unbound, Unbound, Unbound, -1, -1, "")

\* The frame of an on_message call that has just been entered.
Frame(payload) ==
    [payload |-> payload, data |-> Array, node_id |-> Unbound,
     raw_gas_esp32 |-> Unbound, temp_esp32 |-> Unbound, hum_esp32 |-> Unbound,
     calibrated_gas |-> -1, prediction |-> -1, fire_risk_percent |-> -1,
     status_label |-> ""]

NoFrame == Frame(Garbage)

\* The history entry of a message that has just been delivered.
\* pre: what the program holds when the message arrives.
Entry(payload) ==
    [payload |-> payload, steps |-> <<>>, prediction |-> -1, row |-> NoRow,
     ret |-> "", done |-> FALSE,
     pre |-> [model |-> model, sensor_logs |-> sensor_logs, db_open |-> db_open]]

Last == hist[Len(hist)]

Step(name) == [hist EXCEPT ![Len(hist)].steps = Append(@, name)]

Did(e, name) == \E i \in 1..Len(e.steps) : e.steps[i] = name

Count(e, name) == Cardinality({i \in 1..Len(e.steps) : e.steps[i] = name})

(* ------------------- web front end: session and requests -------------- *)
TOKEN_SESSION_KEY == "jwt_token"
USER_SESSION_KEY == "user_info"

\* A Flask session: for each of the two keys the value stored under it, or
\* "absent" if the key is not in the session.  "None" is the value None.
\* A user info is named by its role ("norole": an object without 'role').
Session(token, user) ==
    [k \in {TOKEN_SESSION_KEY, USER_SESSION_KEY} |->
        IF k = TOKEN_SESSION_KEY THEN token ELSE user]

EmptySession == Session("absent", "absent")

\* key in session
Has(s, key) == s[key] # "absent"

\* session.pop(key, None)
Pop(s, key) == [s EXCEPT ![key] = "absent"]

\* What proxy_request hands back when it was not called.
NoResult ==
    [shape |-> "", body |-> "", status |-> 0, session |-> EmptySession, called |-> FALSE]

\* The record of one request: the route, whether the view function behind
\* the decorators ran, the number of calls of the remote API, the answer of
\* the remote API (0: not called, -1: unreachable), what proxy_request
\* returned, the response (status, body), the session before the request and
\* at the end of the request, and whether the request ended in an exception.
Request(route, path, ajax, ran, api_calls, api, result, status, body, before, after, crashed) ==
    [route |-> route, path |-> path, ajax |-> ajax, ran |-> ran,
     api_calls |-> api_calls, api |-> api, result |-> result,
     status |-> status, body |-> body, before |-> before, after |-> after,
     crashed |-> crashed]

NoRequest ==
    Request("", "", FALSE, FALSE, 0, 0, NoResult, 0, "", EmptySession, EmptySession, FALSE)

\* The web front end has not served a request.
WebIdle ==
    /\ session = EmptySession
    /\ debug = TRUE
    /\ req = NoRequest

\* The gateway script has not executed a statement.
GatewayStart ==
    /\ main_pc = "load_model"
    /\ exit_reason = ""
    /\ model_loaded = FALSE
    /\ model = {}
    /\ mqtt = "disconnected"
    /\ subscribed = FALSE
    /\ hpc = "idle"
    /\ loc = NoFrame
    /\ db_open = 0
    /\ sensor_logs = <<>>
    /\ hist = <<>>

Init ==
    /\ WebIdle
    /\ GatewayStart

(* ---------------------- start-up: the artifact ------------------------- *)
\* model = joblib.load(MODEL_FILE) returns.
LoadModelOk ==
    /\ main_pc = "load_model"
    /\ model_loaded' = TRUE
    /\ main_pc' = "connect"
    /\ UNCHANGED << exit_reason, model, chan_vars, hpc, loc, db_vars, hist >>
    /\ UNCHANGED web_vars

\* Mutant of LoadModelNotFound: the branch prints and does not call exit().
LoadModelNotFoundContinues ==
    /\ main_pc = "load_model"
    /\ main_pc' = "connect"
    /\ exit_reason' = "model_not_found"
    /\ UNCHANGED << model_loaded, model, chan_vars, hpc, loc, db_vars, hist >>
    /\ UNCHANGED web_vars

\* joblib.load raises FileNotFoundError: the branch prints and calls exit().
LoadModelNotFound ==
    /\ main_pc = "load_model"
    /\ main_pc' = "terminated"
    /\ exit_reason' = "model_not_found"
    /\ UNCHANGED << model_loaded, model, chan_vars, hpc, loc, db_vars, hist >>
    /\ UNCHANGED web_vars

\* joblib.load raises anything else (a truncated or foreign pickle): no
\* branch catches it and the interpreter ends with the traceback.
LoadModelError ==
    /\ main_pc = "load_model"
    /\ main_pc' = "terminated"
    /\ exit_reason' = "model_load_error"
    /\ UNCHANGED << model_loaded, model, chan_vars, hpc, loc, db_vars, hist >>
    /\ UNCHANGED web_vars

(* ---------------------- start-up: the broker --------------------------- *)
\* client.connect(MQTT_BROKER, 1883, 60) returns; loop_forever is entered.
ConnectOk ==
    /\ main_pc = "connect"
    /\ main_pc' = "loop_forever"
    /\ mqtt' = "awaiting_connack"
    /\ UNCHANGED << exit_reason, model_loaded, model, subscribed,
                    hpc, loc, db_vars, hist >>
    /\ UNCHANGED web_vars

\* Mutant of ConnectRefused: the except branch goes on into loop_forever,
\* which retries the connect.
ConnectRefusedRetries ==
    /\ main_pc = "connect"
    /\ main_pc' = "loop_forever"
    /\ mqtt' = "reconnecting"
    /\ exit_reason' = "connect_refused"
    /\ UNCHANGED << model_loaded, model, subscribed, hpc, loc, db_vars, hist >>
    /\ UNCHANGED web_vars

\* client.connect raises ConnectionRefusedError: the except branch prints two
\* lines, and the script has no statement after it.
ConnectRefused ==
    /\ main_pc = "connect"
    /\ main_pc' = "terminated"
    /\ exit_reason' = "connect_refused"
    /\ UNCHANGED << model_loaded, model, chan_vars, hpc, loc, db_vars, hist >>
    /\ UNCHANGED web_vars

\* client.connect raises another error (unknown host, timeout): uncaught.
ConnectError ==
    /\ main_pc = "connect"
    /\ main_pc' = "terminated"
    /\ exit_reason' = "connect_error"
    /\ UNCHANGED << model_loaded, model, chan_vars, hpc, loc, db_vars, hist >>
    /\ UNCHANGED web_vars

(* ---------------------- inside loop_forever ---------------------------- *)
\* Mutant of OnConnect: the subscription is made whatever rc is.
OnConnectAlways(rc) ==
    /\ main_pc = "loop_forever"
    /\ mqtt = "awaiting_connack"
    /\ hpc = "idle"
    /\ subscribed' = TRUE
    /\ mqtt' = IF rc = 0 THEN "connected" ELSE "reconnecting"
    /\ UNCHANGED << main_vars, model, hpc, loc, db_vars, hist >>
    /\ UNCHANGED web_vars

\* on_connect(client, userdata, flags, rc).  rc = 0: subscribe.  Otherwise
\* only a line is printed; the broker closes the connection it refused and
\* loop_forever goes on to reconnect.
OnConnect(rc) ==
    /\ main_pc = "loop_forever"
    /\ mqtt = "awaiting_connack"
    /\ hpc = "idle"
    /\ IF rc = 0
         THEN /\ subscribed' = TRUE
              /\ mqtt' = "connected"
         ELSE /\ subscribed' = subscribed
              /\ mqtt' = "reconnecting"
    /\ UNCHANGED << main_vars, model, hpc, loc, db_vars, hist >>
    /\ UNCHANGED web_vars

\* The connection drops between two callbacks; the session is clean, so the
\* broker forgets the subscription.
ConnectionLost ==
    /\ main_pc = "loop_forever"
    /\ mqtt = "connected"
    /\ hpc = "idle"
    /\ mqtt' = "reconnecting"
    /\ subscribed' = FALSE
    /\ UNCHANGED << main_vars, model, hpc, loc, db_vars, hist >>
    /\ UNCHANGED web_vars

\* loop_forever reconnects by itself.
Reconnect ==
    /\ main_pc = "loop_forever"
    /\ mqtt = "reconnecting"
    /\ mqtt' = "awaiting_connack"
    /\ UNCHANGED << main_vars, model, subscribed, hpc, loc, db_vars, hist >>
    /\ UNCHANGED web_vars

(* --------------------------- on_message -------------------------------- *)
InHandler(pc) ==
    /\ main_pc = "loop_forever"
    /\ hpc = pc

\* An exception leaves the try block: control is in the except Exception branch.
Raise ==
    /\ hpc' = "except"
    /\ UNCHANGED << loc, hist >>

\* Mutant of Deliver: on_message is started for a new message while the
\* call for the previous one is still running.
DeliverAnytime(payload) ==
    /\ main_pc = "loop_forever"
    /\ mqtt = "connected"
    /\ subscribed
    /\ Len(hist) < MaxMsgs
    /\ hpc' = "decode"
    /\ loc' = Frame(payload)
    /\ hist' = Append(hist, Entry(payload))
    /\ UNCHANGED << main_vars, model, chan_vars, db_vars >>
    /\ UNCHANGED web_vars

\* The broker publishes payload on the subscribed topic; loop_forever calls
\* on_message(client, userdata, msg) with a fresh frame.
Deliver(payload) ==
    /\ InHandler("idle")
    /\ mqtt = "connected"
    /\ subscribed
    /\ Len(hist) < MaxMsgs
    /\ hpc' = "decode"
    /\ loc' = Frame(payload)
    /\ hist' = Append(hist, Entry(payload))
    /\ UNCHANGED << main_vars, model, chan_vars, db_vars >>
    /\ UNCHANGED web_vars

\* json.loads(text): the decoded value, or "error" for JSONDecodeError.
Loads(payload) == IF payload.kind = "garbage" THEN "error" ELSE "value"

\* A. payload_str = msg.payload.decode(); data = json.loads(payload_str)
Decode ==
    /\ InHandler("decode")
    /\ IF Loads(loc.payload) = "error"
         THEN Raise
         ELSE /\ loc' = [loc EXCEPT !.data = loc.payload]
              /\ hist' = Step("decode")
              /\ hpc' = "extract"
    /\ UNCHANGED << main_vars, model, chan_vars, db_vars >>
    /\ UNCHANGED web_vars

\* B. the four data.get calls; a list has no attribute get.
Extract ==
    /\ InHandler("extract")
    /\ IF loc.data.kind # "object"
         THEN Raise
         ELSE /\ loc' = [loc EXCEPT
                    !.node_id = Get(loc.data, "node_id", Str("node_unknown")),
                    !.raw_gas_esp32 = Get(loc.data, "raw_gas", Num(0)),
                    !.temp_esp32 = Get(loc.data, "temp", Num(0)),
                    !.hum_esp32 = Get(loc.data, "humidity", Num(50))]
              /\ hist' = Step("extract")
              /\ hpc' = "calibrate"
    /\ UNCHANGED << main_vars, model, chan_vars, db_vars >>
    /\ UNCHANGED web_vars

\* C. calibrated_gas = map_value(raw_gas_esp32, 0, 4095, 0, 1000); the
\* subtraction raises TypeError for None and for a string.
Calibrate ==
    /\ InHandler("calibrate")
    /\ IF ~IsNum(loc.raw_gas_esp32)
         THEN Raise
         ELSE /\ loc' = [loc EXCEPT !.calibrated_gas =
                            map_value(loc.raw_gas_esp32.n, 0, 4095, 0, 1000)]
              /\ hist' = Step("calibrate")
              /\ hpc' = "predict"
    /\ UNCHANGED << main_vars, model, chan_vars, db_vars >>
    /\ UNCHANGED web_vars

\* Mutant of Features: humidity and temperature in the other order.
FeaturesSwapped(l) == << l.hum_esp32.n, l.temp_esp32.n, l.calibrated_gas >>

\* features = [[temp_esp32, hum_esp32, calibrated_gas]]
Features(l) == << l.temp_esp32.n, l.hum_esp32.n, l.calibrated_gas >>

\* The answers the artifact can give for features f: it is a fixed function,
\* so a vector it has answered before gets the same answer again.
Answers(f) ==
    IF \E a \in model : a.features = f
      THEN {a.outcome : a \in {b \in model : b.features = f}}
      ELSE Outcomes

\* D. model.predict / model.predict_proba; fire_risk_percent.  The global
\* model is unbound if the load failed (NameError); a non-numeric feature is
\* rejected by the classifier (ValueError).
Predict ==
    /\ InHandler("predict")
    /\ IF ~model_loaded \/ ~IsNum(loc.temp_esp32) \/ ~IsNum(loc.hum_esp32)
         THEN /\ Raise
              /\ model' = model
         ELSE \E o \in Answers(Features(loc)) :
              /\ model' = model \cup {[features |-> Features(loc), outcome |-> o]}
              /\ loc' = [loc EXCEPT
                    !.prediction = o.prediction,
                    !.fire_risk_percent = RiskPercent(o.probability)]
              /\ hist' = [Step("classify") EXCEPT
                    ![Len(hist)].prediction = o.prediction]
              /\ hpc' = "status"
    /\ UNCHANGED << main_vars, chan_vars, db_vars >>
    /\ UNCHANGED web_vars

\* Mutant of DeriveStatus: the call of save_to_database comes before the
\* printed lines, which are never reached.
DeriveStatusThenSave ==
    /\ InHandler("status")
    /\ loc' = [loc EXCEPT !.status_label =
                  StatusLabel(loc.prediction, loc.fire_risk_percent)]
    /\ hist' = Step("status")
    /\ hpc' = "save"
    /\ UNCHANGED << main_vars, model, chan_vars, db_vars >>
    /\ UNCHANGED web_vars

\* E. status_label
DeriveStatus ==
    /\ InHandler("status")
    /\ loc' = [loc EXCEPT !.status_label =
                  StatusLabel(loc.prediction, loc.fire_risk_percent)]
    /\ hist' = Step("status")
    /\ hpc' = "report"
    /\ UNCHANGED << main_vars, model, chan_vars, db_vars >>
    /\ UNCHANGED web_vars

\* F. the four printed lines.
Report ==
    /\ InHandler("report")
    /\ hist' = Step("report")
    /\ hpc' = "save"
    /\ UNCHANGED << main_vars, model, chan_vars, db_vars, loc >>
    /\ UNCHANGED web_vars

\* The row on_message passes to save_to_database.
SensorLogRecord(l) ==
    Row(l.node_id, l.temp_esp32, l.hum_esp32, l.calibrated_gas,
        l.fire_risk_percent, l.status_label)

\* Mutant of CallSave: a row equal to a committed one is not saved again.
CallSaveOnce ==
    /\ InHandler("save")
    /\ IF \E n \in 1..Len(sensor_logs) : sensor_logs[n] = SensorLogRecord(loc)
         THEN /\ hist' = hist
              /\ hpc' = "return"
         ELSE /\ hist' = [Step("save") EXCEPT ![Len(hist)].row = SensorLogRecord(loc)]
              /\ hpc' = "db_connect"
    /\ UNCHANGED << main_vars, model, chan_vars, db_vars, loc >>
    /\ UNCHANGED web_vars

\* G. save_to_database(node_id, temp_esp32, hum_esp32, calibrated_gas,
\*                     fire_risk_percent, status_label) is called.
CallSave ==
    /\ InHandler("save")
    /\ hist' = [Step("save") EXCEPT ![Len(hist)].row = SensorLogRecord(loc)]
    /\ hpc' = "db_connect"
    /\ UNCHANGED << main_vars, model, chan_vars, db_vars, loc >>
    /\ UNCHANGED web_vars

(* ------------------------- save_to_database ---------------------------- *)
\* A mysql.connector.Error leaves the try block of save_to_database.
DbRaise ==
    /\ hpc' = "db_except"
    /\ hist' = Step("db_raise")
    /\ UNCHANGED db_vars

\* conn = mysql.connector.connect(**DB_CONFIG)
DbConnect(result) ==
    /\ InHandler("db_connect")
    /\ IF result = "error"
         THEN DbRaise
         ELSE /\ db_open' = db_open + 1
              /\ hist' = Step("db_connect")
              /\ hpc' = "db_execute"
              /\ UNCHANGED sensor_logs
    /\ UNCHANGED << main_vars, model, chan_vars, loc >>
    /\ UNCHANGED web_vars

\* cursor = conn.cursor(); cursor.execute(sql, val).  result = "error": a
\* mysql.connector.Error; result = "other": an exception of another class,
\* which the except clause of save_to_database does not name, so it leaves
\* save_to_database and is caught by on_message.
DbExecute(result) ==
    /\ InHandler("db_execute")
    /\ CASE result = "error" -> DbRaise
         [] result = "other" ->
              /\ hpc' = "except"
              /\ hist' = [hist EXCEPT ![Len(hist)].ret = "raised"]
              /\ UNCHANGED db_vars
         [] OTHER ->
              /\ hist' = Step("db_execute")
              /\ hpc' = "db_commit"
              /\ UNCHANGED db_vars
    /\ UNCHANGED << main_vars, model, chan_vars, loc >>
    /\ UNCHANGED web_vars

\* conn.commit()
DbCommit(result) ==
    /\ InHandler("db_commit")
    /\ IF result = "error"
         THEN DbRaise
         ELSE /\ sensor_logs' = Append(sensor_logs, Last.row)
              /\ hist' = Step("db_commit")
              /\ hpc' = "db_close"
              /\ UNCHANGED db_open
    /\ UNCHANGED << main_vars, model, chan_vars, loc >>
    /\ UNCHANGED web_vars

\* What save_to_database returns after a write that succeeded: it has no
\* return statement.
SaveReturnOk == "None"

\* Mutant of SaveReturnFailed: the except clause ends with return False.
SaveReturnFalse == "False"

\* What save_to_database returns after its except clause ran: no return
\* statement either.
SaveReturnFailed == "None"

\* cursor.close(); conn.close(); print("Data saved ..."); return
DbClose ==
    /\ InHandler("db_close")
    /\ db_open' = db_open - 1
    /\ hist' = [Step("db_saved") EXCEPT ![Len(hist)].ret = SaveReturnOk]
    /\ hpc' = "return"
    /\ UNCHANGED << main_vars, model, chan_vars, loc, sensor_logs >>
    /\ UNCHANGED web_vars

\* Mutant of DbExcept: the except clause prints and raises again, and the
\* error ends loop_forever.
DbExceptFatal ==
    /\ InHandler("db_except")
    /\ hist' = [Step("db_error") EXCEPT ![Len(hist)].ret = "raised"]
    /\ hpc' = "idle"
    /\ main_pc' = "terminated"
    /\ UNCHANGED << exit_reason, model_loaded, model, chan_vars, loc, db_vars >>
    /\ UNCHANGED web_vars

\* Mutant of DbExcept: the except clause prints and calls save_to_database
\* again with the same row.
DbExceptRetry ==
    /\ InHandler("db_except")
    /\ hist' = Step("db_error")
    /\ hpc' = "save"
    /\ UNCHANGED << main_vars, model, chan_vars, loc, db_vars >>
    /\ UNCHANGED web_vars

\* except mysql.connector.Error as err: print("Database Error ..."); return.
\* conn.close() is not called on this path.
DbExcept ==
    /\ InHandler("db_except")
    /\ hist' = [Step("db_error") EXCEPT ![Len(hist)].ret = SaveReturnFailed]
    /\ hpc' = "return"
    /\ UNCHANGED << main_vars, model, chan_vars, loc, db_vars >>
    /\ UNCHANGED web_vars

(* ---------------------- the ends of on_message ------------------------- *)
\* save_to_database returned: the try block is done and on_message returns.
Return ==
    /\ InHandler("return")
    /\ hist' = [hist EXCEPT ![Len(hist)].done = TRUE]
    /\ hpc' = "idle"
    /\ loc' = NoFrame
    /\ UNCHANGED << main_vars, model, chan_vars, db_vars >>
    /\ UNCHANGED web_vars

\* Mutant of Except: the except branch prints and raises again, and the
\* error ends loop_forever.
ExceptReraises ==
    /\ InHandler("except")
    /\ hist' = [Step("error") EXCEPT ![Len(hist)].done = TRUE]
    /\ hpc' = "idle"
    /\ loc' = NoFrame
    /\ main_pc' = "terminated"
    /\ UNCHANGED << exit_reason, model_loaded, model, chan_vars, db_vars >>
    /\ UNCHANGED web_vars

\* except Exception as e: print("Error processing message ..."); return.
Except ==
    /\ InHandler("except")
    /\ hist' = [Step("error") EXCEPT ![Len(hist)].done = TRUE]
    /\ hpc' = "idle"
    /\ loc' = NoFrame
    /\ UNCHANGED << main_vars, model, chan_vars, db_vars >>
    /\ UNCHANGED web_vars

(* ------------------------- specification ------------------------------- *)
Next ==
    \/ LoadModelOk
    \/ LoadModelNotFound
    \/ LoadModelError
    \/ ConnectOk
    \/ ConnectRefused
    \/ ConnectError
    \/ \E rc \in {0, 5} : OnConnect(rc)
    \/ ConnectionLost
    \/ Reconnect
    \/ \E payload \in Payloads : Deliver(payload)
    \/ Decode
    \/ Extract
    \/ Calibrate
    \/ Predict
    \/ DeriveStatus
    \/ Report
    \/ CallSave
    \/ \E result \in {"ok", "error"} : DbConnect(result)
    \/ \E result \in {"ok", "error", "other"} : DbExecute(result)
    \/ \E result \in {"ok", "error"} : DbCommit(result)
    \/ DbClose
    \/ DbExcept
    \/ Return
    \/ Except

Spec == Init /\ [][Next]_vars

(* ------------------------- web front end ------------------------------- *)
\* Answers of the remote API: an HTTP status, or ApiDown when the request
\* raises a RequestException.
ApiDown == 0 - 1

\* What the session holds after the request: an unhandled exception in debug
\* mode is re-raised to the debugger and the response carries no session
\* cookie; otherwise the session as the request left it is written back.
Persist(before, after, crashed) ==
    IF crashed /\ debug THEN before ELSE after

\* session.get(USER_SESSION_KEY, {}).get('role'): the role, "None" when there
\* is no user info or no role in it, "AttributeError" when the value stored
\* under the key is None.
UserRole(s) ==
    CASE s[USER_SESSION_KEY] = "absent" -> "None"
      [] s[USER_SESSION_KEY] = "norole" -> "None"
      [] s[USER_SESSION_KEY] = "None" -> "AttributeError"
      [] OTHER -> s[USER_SESSION_KEY]

\* The answer of login_required when the token key is not in the session.
ToLogin(route, path, ajax) ==
    Request(route, path, ajax, FALSE, 0, 0, NoResult, 302, "redirect:login",
            session, session, FALSE)

Serve(r) ==
    /\ req' = r
    /\ session' = Persist(r.before, r.after, r.crashed)
    /\ debug' = debug
    /\ UNCHANGED gateway_vars

\* GET /login
LoginGet ==
    Serve(Request("login", "", FALSE, TRUE, 0, 0, NoResult, 200, "login.html",
                  session, session, FALSE))

\* POST /login: requests.post to /auth/login.  A 200 answer stores
\* data.get('token') and data.get('user') ("None" when the answer has no such
\* member); any other status renders the form with 401, a RequestException
\* with 503.
LoginPost(api, token, user) ==
    Serve(CASE api = 200 ->
                Request("login", "/auth/login", FALSE, TRUE, 1, api, NoResult,
                        302, "redirect:index", session, Session(token, user), FALSE)
            [] api = ApiDown ->
                Request("login", "/auth/login", FALSE, TRUE, 1, api, NoResult,
                        503, "login.html", session, session, FALSE)
            [] OTHER ->
                Request("login", "/auth/login", FALSE, TRUE, 1, api, NoResult,
                        401, "login.html", session, session, FALSE))

\* Mutant of Logout: only the token is popped.
LogoutTokenOnly ==
    Serve(Request("logout", "", FALSE, TRUE, 0, 0, NoResult, 302, "redirect:login",
                  session, Pop(session, TOKEN_SESSION_KEY), FALSE))

\* GET /logout
Logout ==
    Serve(Request("logout", "", FALSE, TRUE, 0, 0, NoResult, 302, "redirect:login",
                  session, Pop(Pop(session, TOKEN_SESSION_KEY), USER_SESSION_KEY),
                  FALSE))

\* GET / : login_required, then index, whose role lookup raises when the
\* stored user info is None.
Index ==
    Serve(IF ~Has(session, TOKEN_SESSION_KEY)
            THEN ToLogin("index", "", FALSE)
          ELSE IF UserRole(session) = "AttributeError"
            THEN Request("index", "", FALSE, TRUE, 0, 0, NoResult, 500, "error",
                         session, session, TRUE)
          ELSE Request("index", "", FALSE, TRUE, 0, 0, NoResult, 200, "index.html",
                       session, session, FALSE))

\* GET /admin : login_required, then the role check of role_required('admin'),
\* then admin.
Admin ==
    Serve(IF ~Has(session, TOKEN_SESSION_KEY)
            THEN ToLogin("admin", "", FALSE)
          ELSE IF UserRole(session) = "AttributeError"
            THEN Request("admin", "", FALSE, FALSE, 0, 0, NoResult, 500, "error",
                         session, session, TRUE)
          ELSE IF UserRole(session) # "admin"
            THEN Request("admin", "", FALSE, FALSE, 0, 0, NoResult, 403, "403.html",
                         session, session, FALSE)
          ELSE Request("admin", "", FALSE, TRUE, 0, 0, NoResult, 200, "admin.html",
                       session, session, FALSE))

\* What proxy_request returns.  shape = "pair": a (body, status) tuple;
\* shape = "response": a single Response object.  body = "json": the decoded
\* body of the remote answer; body = "jsonify": a Response made by jsonify;
\* body = "redirect:login": the Response made by redirect.
Result(shape, body, status, s, called) ==
    [shape |-> shape, body |-> body, status |-> status, session |-> s, called |-> called]

\* proxy_request(method, path, ...) in a request that is AJAX or not, with
\* the remote API answering api, on the session s.
proxy_request(method, path, ajax, api, s) ==
    IF method \notin {"GET", "POST", "PUT", "DELETE"}
      THEN Result("pair", "jsonify", 405, s, FALSE)
    ELSE IF api = ApiDown
      THEN Result("pair", "jsonify", 503, s, TRUE)
    ELSE IF api = 401 /\ path # "/auth/login"
      THEN LET popped == Pop(Pop(s, TOKEN_SESSION_KEY), USER_SESSION_KEY)
           IN  IF ajax THEN Result("pair", "jsonify", 401, popped, TRUE)
                       ELSE Result("response", "redirect:login", 302, popped, TRUE)
    ELSE Result("pair", "json", api, s, TRUE)

\* /api/proxy/<path> : login_required, then api_proxy.  Unpacking a single
\* Response into (response_data, status_code) raises, and so does jsonify of
\* a Response; otherwise the answer is jsonify(response_data), status_code.
ApiProxy(method, path, ajax, api) ==
    Serve(IF ~Has(session, TOKEN_SESSION_KEY)
            THEN ToLogin("api_proxy", path, ajax)
          ELSE LET r == proxy_request(method, path, ajax, api, session)
               IN  IF r.shape # "pair" \/ r.body = "jsonify"
                     THEN Request("api_proxy", path, ajax, TRUE, IF r.called THEN 1 ELSE 0,
                                  api, r, 500, "error", session, r.session, TRUE)
                     ELSE Request("api_proxy", path, ajax, TRUE, IF r.called THEN 1 ELSE 0,
                                  api, r, r.status, r.body, session, r.session, FALSE))

\* The application is started by app.run(debug=True) or imported by a WSGI
\* server (debug off).
InitWeb ==
    /\ GatewayStart
    /\ session = EmptySession
    /\ req = NoRequest
    /\ debug \in BOOLEAN

NextWeb ==
    \/ LoginGet
    \/ \E api \in {200, 401, ApiDown},
          token \in {"tok", "None"},
          user \in {"admin", "readonly", "norole", "None"} :
            LoginPost(api, token, user)
    \/ Logout
    \/ Index
    \/ Admin
    \/ \E method \in {"GET", "POST", "PUT", "DELETE"},
          path \in {"/noeuds", "/auth/login"},
          ajax \in BOOLEAN,
          api \in {200, 401, 404, ApiDown} :
            ApiProxy(method, path, ajax, api)

SpecWeb == InitWeb /\ [][NextWeb]_vars

(* ---------------- specifications of the two pure steps ----------------- *)
\* on_message stopped inside the handling of one message, the way Deliver
\* and the steps before pc leave it.
AtStep(pc, frame) ==
    /\ WebIdle
    /\ main_pc = "loop_forever"
    /\ exit_reason = ""
    /\ model_loaded = TRUE
    /\ model = {}
    /\ mqtt = "connected"
    /\ subscribed = TRUE
    /\ hpc = pc
    /\ loc = frame
    /\ db_open = 0
    /\ sensor_logs = <<>>
    /\ hist = << Entry(frame.payload) >>

\* Calibration of every raw value of the 12-bit range: a message carrying
\* the raw value has just been delivered.
InitCalib ==
    \E raw \in 0..4095 :
        AtStep("decode", Frame(Object(Str("n1"), Num(raw), Num(25), Num(40))))

NextCalib ==
    \/ Decode
    \/ Extract
    \/ Calibrate

SpecCalib == InitCalib /\ [][NextCalib]_vars

\* Status derivation for every label and every probability of the grid: the
\* artifact has just answered for the message FullMid.
InitPolicy ==
    \E prediction \in {0, 1}, probability \in 0..ProbDen :
        AtStep("status", [Frame(FullMid) EXCEPT
                            !.data = FullMid,
                            !.node_id = Str("n1"),
                            !.raw_gas_esp32 = Num(2048),
                            !.temp_esp32 = Num(25),
                            !.hum_esp32 = Num(40),
                            !.calibrated_gas = map_value(2048, 0, 4095, 0, 1000),
                            !.prediction = prediction,
                            !.fire_risk_percent = RiskPercent(probability)])

NextPolicy ==
    \/ DeriveStatus
    \/ Report

SpecPolicy == InitPolicy /\ [][NextPolicy]_vars

(* ============================== claims ================================= *)
Entries == {hist[i] : i \in 1..Len(hist)}

\* The steps of a message that went through the whole pipeline, up to the
\* call of save_to_database.
Pipeline == << "decode", "extract", "calibrate", "classify", "status", "report", "save" >>

\* The steps e took before anything of save_to_database ran.
Path(e) ==
    SubSeq(e.steps, 1, IF Len(e.steps) < Len(Pipeline) THEN Len(e.steps) ELSE Len(Pipeline))

FullyProcessed(e) ==
    /\ Len(e.steps) >= Len(Pipeline)
    /\ SubSeq(e.steps, 1, Len(Pipeline)) = Pipeline

\* A payload every step accepts: an object whose raw_gas, temp and humidity
\* are numbers or are missing.
WellFormed(payload) ==
    /\ payload.kind = "object"
    /\ \A k \in {"raw_gas", "temp", "humidity"} :
          payload.obj[k] = Absent \/ IsNum(payload.obj[k])

\* The frame holds a derived status: on_message is past step E.
StatusDerived == hpc \in {"report", "save"}

\* C1: for every classifier outcome the derived status is CRITICAL when the
\* label is 1 (whatever the percent), otherwise WARNING when the percent is
\* strictly above 50, otherwise SAFE; (0, 50) is SAFE and (0, 51) WARNING.
C1_StatusTable ==
    StatusDerived =>
        /\ loc.status_label \in {"SAFE", "WARNING", "CRITICAL"}
        /\ loc.prediction = 1 => loc.status_label = "CRITICAL"
        /\ (loc.prediction # 1 /\ loc.fire_risk_percent > 50 * ProbDen)
              => loc.status_label = "WARNING"
        /\ (loc.prediction # 1 /\ loc.fire_risk_percent <= 50 * ProbDen)
              => loc.status_label = "SAFE"
        /\ (loc.prediction = 0 /\ loc.fire_risk_percent = 51 * ProbDen)
              => loc.status_label = "WARNING"

\* The boundary case: no alarm at exactly 50 percent was derived as SAFE.
C1_Witness ==
    /\ StatusDerived
    /\ loc.prediction = 0
    /\ loc.fire_risk_percent = 50 * ProbDen
    /\ loc.status_label = "SAFE"

\* The calibrated value the code computes for a raw value of the loop's ranges.
Calibrated(raw) == map_value(raw, 0, 4095, 0, 1000)

\* C2: with the ranges of the loop, raw 0 calibrates to 0, raw 4095 to 1000,
\* and the calibrated value never decreases when the raw value grows, over
\* all pairs of raw values in 0..4095.
C2_Calibration ==
    (hpc = "predict" /\ loc.raw_gas_esp32.n \in 0..4095) =>
        /\ loc.raw_gas_esp32.n = 0 => loc.calibrated_gas = 0
        /\ loc.raw_gas_esp32.n = 4095 => loc.calibrated_gas = 1000 * GasScale
        /\ \A raw2 \in 0..4095 :
              /\ loc.raw_gas_esp32.n <= raw2 => loc.calibrated_gas <= Calibrated(raw2)
              /\ raw2 <= loc.raw_gas_esp32.n => Calibrated(raw2) <= loc.calibrated_gas

\* The upper end of the range has been calibrated.
C2_Witness ==
    /\ hpc = "predict"
    /\ loc.raw_gas_esp32 = Num(4095)
    /\ loc.calibrated_gas = 1000 * GasScale

\* save_to_database was called for e and a step of the write raised a
\* mysql.connector.Error.
SinkFailed(e) == Did(e, "db_raise")

\* save_to_database printed its error line for e.
SinkErrorLogged(e) == Did(e, "db_error")

\* save_to_database was called for e and the row was committed.
SinkWrote(e) == Did(e, "db_saved")

\* The program holds what it held when the message of e arrived.
Untouched(e) ==
    /\ model = e.pre.model
    /\ sensor_logs = e.pre.sensor_logs
    /\ db_open = e.pre.db_open

\* C3: a payload that is no JSON is logged and discarded (not classified, no
\* persistence attempt), on_message returns and the loop goes on; a valid
\* message delivered afterwards goes through the whole pipeline, with the
\* result the same message has when no malformed one came before it.
C3_MalformedIsolated ==
    \A i \in 1..Len(hist) :
        hist[i].payload = Garbage =>
            /\ main_pc = "loop_forever"
            /\ hist[i].row = NoRow
            /\ \A n \in 1..Len(hist[i].steps) : hist[i].steps[n] = "error"
            /\ (i < Len(hist) \/ hpc = "idle") => hist[i].done
            /\ hist[i].done => hist[i].steps = << "error" >>
            /\ i = Len(hist) =>
                  /\ Untouched(hist[i])
                  /\ hpc \in {"decode", "except", "idle"}
            /\ \A j \in (i + 1)..Len(hist) :
                  /\ (hist[j].done /\ WellFormed(hist[j].payload))
                        => (FullyProcessed(hist[j]) /\ Count(hist[j], "save") = 1)
                  /\ \A k \in 1..(i - 1) :
                        (hist[k].payload = hist[j].payload /\ hist[j].done)
                            => /\ hist[j].row = hist[k].row
                               /\ hist[j].prediction = hist[k].prediction
                               /\ Path(hist[j]) = Path(hist[k])

\* A valid message was fully processed and written after a malformed one.
C3_Witness ==
    /\ Len(hist) = 2
    /\ hist[1].payload = Garbage
    /\ hist[1].done
    /\ hist[2].payload = FullMid
    /\ hist[2].done
    /\ SinkWrote(hist[2])

\* C4: a sink failure on message k never leaves on_message: the loop neither
\* ends nor restarts, and message k+1 is accepted and fully processed, with
\* its own persistence attempt.
C4_SinkFailureIsolated ==
    \A k \in 1..Len(hist) :
        (SinkFailed(hist[k]) \/ hist[k].ret = "raised") =>
            /\ main_pc = "loop_forever"
            /\ model_loaded
            /\ FullyProcessed(hist[k])
            /\ (k < Len(hist) \/ hpc = "idle") => hist[k].done
            /\ (k < Len(hist) /\ hist[k + 1].done /\ WellFormed(hist[k + 1].payload))
                  => /\ FullyProcessed(hist[k + 1])
                     /\ Count(hist[k + 1], "save") = 1
                     /\ hist[k + 1].row # NoRow

\* The sink failed for one message and the next one was written.
C4_Witness ==
    /\ Len(hist) >= 2
    /\ SinkFailed(hist[1])
    /\ hist[2].done
    /\ SinkWrote(hist[2])

\* C5 as stated: the result of a save_to_database call whose write failed
\* differs from the result of a call whose write succeeded.
C5_Original ==
    \A e1, e2 \in Entries :
        (SinkWrote(e1) /\ SinkFailed(e2) /\ e2.ret # "") => e1.ret # e2.ret

\* C5 as amended: save_to_database catches the mysql.connector.Error itself,
\* prints the error line and returns None, as it does after a successful
\* write: the two results are the same value, and only the printed line
\* (saved or error, never both) tells them apart.
C5_SinkReturnsNone ==
    \A e \in Entries :
        /\ (SinkWrote(e) \/ SinkErrorLogged(e)) => e.ret = "None"
        /\ SinkErrorLogged(e) => SinkFailed(e)
        /\ (SinkFailed(e) /\ e.done) => (SinkErrorLogged(e) /\ ~SinkWrote(e))
        /\ (e.done /\ Did(e, "save") /\ e.ret # "raised")
              => (SinkWrote(e) \/ SinkFailed(e))

\* One call wrote its row and another call failed.
C5_Witness ==
    \E e1, e2 \in Entries :
        /\ SinkWrote(e1) /\ e1.done
        /\ SinkFailed(e2) /\ e2.done
        /\ e1.ret = e2.ret

\* C6: a JSON object with none of the recognised members is processed with
\* node_id "node_unknown", raw_gas 0, temp 0, humidity 50, along the path of
\* a fully populated message, and causes exactly one persistence attempt.
C6_Defaults ==
    /\ (loc.payload = EmptyObject /\ hpc \in {"calibrate", "predict", "status", "report", "save"})
          => /\ loc.node_id = Str("node_unknown")
             /\ loc.raw_gas_esp32 = Num(0)
             /\ loc.temp_esp32 = Num(0)
             /\ loc.hum_esp32 = Num(50)
    /\ \A e \in Entries :
          (e.payload = EmptyObject /\ e.done) =>
              /\ FullyProcessed(e)
              /\ Count(e, "save") = 1
              /\ e.row.node = Str("node_unknown")
              /\ e.row.temp = Num(0)
              /\ e.row.hum = Num(50)
              /\ e.row.smoke = 0
              /\ \A f \in Entries :
                    (f.payload = FullMid /\ f.done) =>
                        Path(f) = Path(e)

\* A message without members and a fully populated one were both processed.
C6_Witness ==
    \E e, f \in Entries :
        /\ e.payload = EmptyObject /\ e.done /\ Count(e, "save") = 1
        /\ f.payload = FullMid /\ f.done

\* The number of entries of a sequence of history entries that satisfy Did(_, name).
RECURSIVE Total(_, _)
Total(h, name) ==
    IF h = <<>> THEN 0
    ELSE Count(h[1], name) + Total(Tail(h), name)

\* C7: the number of persistence attempts equals the number of messages that
\* were decoded and classified without error: one save_to_database call for
\* each of them, and no second attempt for a record whose write failed.
C7_OneAttemptPerMessage ==
    /\ \A e \in Entries :
          /\ Count(e, "save") <= 1
          /\ Count(e, "db_connect") <= Count(e, "save")
          /\ Did(e, "save") => Did(e, "classify")
          /\ (e.done /\ Did(e, "classify")) => Count(e, "save") = 1
    /\ hpc = "idle" => Total(hist, "save") = Total(hist, "classify")
    /\ Len(sensor_logs) <= Total(hist, "save")

\* The first write failed and was not tried again: two messages, two
\* attempts, one row.
C7_Witness ==
    /\ hpc = "idle"
    /\ Len(hist) = 2
    /\ SinkFailed(hist[1])
    /\ Did(hist[2], "classify")
    /\ Total(hist, "save") = 2
    /\ Len(sensor_logs) = 1

\* C8: no state is carried from one message to the next: the same message
\* delivered twice causes two separate persistence attempts with identical
\* field values, whatever was processed before or in between.
C8_NoCrossMessageState ==
    \A i, j \in 1..Len(hist) :
        (i < j /\ hist[i].payload = hist[j].payload /\ hist[j].done) =>
            /\ hist[j].row = hist[i].row
            /\ hist[j].prediction = hist[i].prediction
            /\ Count(hist[j], "save") = Count(hist[i], "save")
            /\ Did(hist[j], "classify") => Count(hist[j], "save") = 1
            /\ Path(hist[j]) = Path(hist[i])

\* The same message was delivered twice and written twice.
C8_Witness ==
    /\ Len(hist) = 2
    /\ hist[1].payload = FullMid
    /\ hist[2].payload = FullMid
    /\ hist[2].done
    /\ Count(hist[1], "save") = 1
    /\ Count(hist[2], "save") = 1
    /\ hist[1].row = hist[2].row
    /\ Len(sensor_logs) = 2

\* client.connect raised at start-up.
StartupConnectFailed == exit_reason \in {"connect_refused", "connect_error"}

\* C9 as stated: a connection failure at start-up does not terminate the
\* process; the loop is in the Reconnecting state.
C9_Original ==
    StartupConnectFailed => (main_pc # "terminated" /\ mqtt = "reconnecting")

\* C9 as amended: only a connection lost after a successful start-up connect
\* moves the loop to Reconnecting without terminating (loop_forever
\* reconnects); a failed connect at start-up terminates the process, which
\* never subscribes and never handles a message.
C9_StartupFailureTerminates ==
    /\ StartupConnectFailed =>
          /\ main_pc = "terminated"
          /\ mqtt = "disconnected"
          /\ ~subscribed
          /\ hist = <<>>
    /\ mqtt = "reconnecting" => (main_pc = "loop_forever" /\ ~StartupConnectFailed)
    /\ main_pc = "terminated" => (exit_reason # "" /\ mqtt = "disconnected")

\* The broker refused the start-up connect and the script has ended.
C9_Witness ==
    /\ exit_reason = "connect_refused"
    /\ main_pc = "terminated"

\* C10: when the artifact is absent or cannot be loaded the process stops
\* before it connects: nothing is subscribed, classified or persisted without
\* a loaded artifact.
C10_NoArtifactNoService ==
    /\ exit_reason \in {"model_not_found", "model_load_error"} =>
          /\ main_pc = "terminated"
          /\ ~model_loaded
    /\ ~model_loaded =>
          /\ mqtt = "disconnected"
          /\ ~subscribed
          /\ hist = <<>>
          /\ sensor_logs = <<>>
          /\ hpc = "idle"
          /\ main_pc \in {"load_model", "terminated"}

\* The artifact was not found and the script has ended.
C10_Witness ==
    /\ exit_reason = "model_not_found"
    /\ main_pc = "terminated"
    /\ ~model_loaded

\* The handling of e is over with respect to the sink: save_to_database was
\* not called, or it has returned or raised.
SinkFinished(e) ==
    Did(e, "save") => (SinkWrote(e) \/ SinkErrorLogged(e) \/ e.ret = "raised")

\* C11: messages are handled one after the other: at most one message is
\* being processed at any time, and the persistence attempt of message k is
\* over (written or failed) before message k+1 is decoded.
C11_Sequential ==
    /\ Cardinality({i \in 1..Len(hist) : ~hist[i].done}) <= 1
    /\ \A k \in 1..Len(hist) :
          /\ ~hist[k].done => (k = Len(hist) /\ hpc # "idle")
          /\ k < Len(hist) => (hist[k].done /\ SinkFinished(hist[k]))
    /\ hpc = "idle" => \A e \in Entries : e.done

\* The second message is being decoded after the first one was written.
C11_Witness ==
    /\ Len(hist) = 2
    /\ SinkWrote(hist[1])
    /\ hist[1].done
    /\ Did(hist[2], "decode")
    /\ ~hist[2].done

\* C12 as stated: every save_to_database call has closed the connection it
\* opened when it returns, on the success path and on every failure path, so
\* that no connection is open while the loop is idle.
C12_Original ==
    hpc \in {"return", "idle"} => db_open = 0

\* The member of a payload, or the default the spec gives for it.
Member(payload, key, default) ==
    IF payload.obj[key] = Absent THEN default ELSE payload.obj[key]

\* C13: the row handed to the sink is (node_id, temp, humidity, calibrated
\* gas, fire_risk_percent, status): the message's values or their defaults,
\* the calibrated gas and not the raw one, the risk being 100 times the
\* positive-class probability the classifier gave for the features
\* [temp, humidity, calibrated gas], and the status one of SAFE, WARNING,
\* CRITICAL derived from that same outcome.
C13_RecordContents ==
    \A e \in Entries :
        Did(e, "save") =>
            /\ e.row.node = Member(e.payload, "node_id", Str("node_unknown"))
            /\ e.row.temp = Member(e.payload, "temp", Num(0))
            /\ e.row.hum = Member(e.payload, "humidity", Num(50))
            /\ e.row.smoke = Calibrated(Member(e.payload, "raw_gas", Num(0)).n)
            /\ \E a \in model :
                  /\ a.features = << e.row.temp.n, e.row.hum.n, e.row.smoke >>
                  /\ a.outcome.prediction = e.prediction
                  /\ e.row.risk = a.outcome.probability * 100
            /\ e.row.status \in {"SAFE", "WARNING", "CRITICAL"}
            /\ e.row.status = "CRITICAL" <=> e.prediction = 1
            /\ e.row.status = "WARNING" <=>
                  (e.prediction # 1 /\ e.row.risk > 50 * ProbDen)

\* The fully populated message was handed to the sink with its calibrated gas.
C13_Witness ==
    \E e \in Entries :
        /\ e.payload = FullMid
        /\ Did(e, "save")
        /\ e.row.smoke = Calibrated(2048)
        /\ e.row.smoke # 2048 * GasScale
        /\ e.row.temp = Num(25)
        /\ e.row.hum = Num(40)

\* The steps of e follow the order of the pipeline, none of them twice, and
\* nothing but steps of save_to_database or the error line comes after them.
InOrder(e) ==
    \A n \in 1..Len(e.steps) :
        /\ n <= Len(Pipeline) => e.steps[n] \in {Pipeline[n], "error"}
        /\ n > Len(Pipeline) =>
              e.steps[n] \in {"db_connect", "db_execute", "db_commit", "db_saved",
                              "db_raise", "db_error", "error"}
        /\ e.steps[n] = "error" => n = Len(e.steps)

\* C16: within one message the steps run in the order decode, extract,
\* calibrate, classify, derive status, report, persist; the report is out
\* before the persistence attempt starts, so a sink failure neither
\* suppresses nor changes the report or the status of that message, and no
\* earlier step runs again after a failure of the report or the sink.
C16_StepOrder ==
    /\ \A e \in Entries :
          /\ InOrder(e)
          /\ Did(e, "save") => FullyProcessed(e)
          /\ (SinkFailed(e) \/ e.ret = "raised") =>
                /\ Count(e, "report") = 1
                /\ Count(e, "status") = 1
                /\ e.row.status \in {"SAFE", "WARNING", "CRITICAL"}
    /\ (hist # <<>> /\ Did(Last, "save") /\ hpc # "idle") =>
          Last.row.status = loc.status_label

\* The sink failed for a message whose report had been printed.
C16_Witness ==
    \E e \in Entries :
        /\ e.done
        /\ SinkFailed(e)
        /\ FullyProcessed(e)
        /\ Len(e.steps) > Len(Pipeline)

\* The steps a payload gets through before one of extraction, calibration
\* or classification raises.
StepsBeforeError(payload) ==
    CASE payload = Array -> << "decode" >>
      [] payload = NullGas -> << "decode", "extract" >>
      [] payload = TextTemp -> << "decode", "extract", "calibrate" >>

\* C17: an exception raised by field extraction (a payload that is no JSON
\* object), by calibration (a raw_gas that is no number) or by
\* classification is caught inside on_message: the message is dropped with
\* no persistence attempt, the handler returns and later messages are
\* processed.
C17_HandlerErrorsIsolated ==
    \A i \in 1..Len(hist) :
        hist[i].payload \in {Array, NullGas, TextTemp} =>
            /\ main_pc = "loop_forever"
            /\ ~Did(hist[i], "save")
            /\ ~Did(hist[i], "db_connect")
            /\ hist[i].row = NoRow
            /\ hist[i].done =>
                  hist[i].steps = Append(StepsBeforeError(hist[i].payload), "error")
            /\ (i < Len(hist) \/ hpc = "idle") => hist[i].done
            /\ i = Len(hist) =>
                  /\ sensor_logs = hist[i].pre.sensor_logs
                  /\ db_open = hist[i].pre.db_open
            /\ (i < Len(hist) /\ hist[i + 1].done /\ hist[i + 1].payload \in {EmptyObject, FullMid})
                  => (FullyProcessed(hist[i + 1]) /\ Count(hist[i + 1], "save") = 1)

\* A message with a null raw_gas was dropped and the next message was written.
C17_Witness ==
    /\ Len(hist) = 2
    /\ hist[1].payload = NullGas
    /\ hist[1].done
    /\ hist[2].payload = FullMid
    /\ SinkWrote(hist[2])

\* C18: the loop starts Disconnected and is subscribed only after on_connect
\* with rc = 0 (a refused CONNACK leaves it unsubscribed); a message is
\* processed only from Connected/Idle, that is after a successful subscribe,
\* and the loop is back in Connected/Idle after every message.
C18_LoopStates ==
    /\ main_pc \in {"load_model", "connect"} =>
          (mqtt = "disconnected" /\ ~subscribed /\ hist = <<>>)
    /\ subscribed <=> mqtt = "connected"
    /\ mqtt \in {"awaiting_connack", "reconnecting"} => (~subscribed /\ hpc = "idle")
    /\ hpc # "idle" => (mqtt = "connected" /\ subscribed /\ main_pc = "loop_forever")
    /\ hist # <<>> => main_pc = "loop_forever"
    /\ \A e \in Entries : e.done \/ (e = Last /\ hpc # "idle")

\* A message was handled and the loop is back in Connected/Idle.
C18_Witness ==
    /\ hist # <<>>
    /\ Last.done
    /\ hpc = "idle"
    /\ mqtt = "connected"
    /\ subscribed
    /\ Did(Last, "error")

\* C14 as stated: the views behind '/', '/admin' and '/api/proxy/<path>' run
\* only with the token key in the session, a request without it being
\* redirected to the login page with no call of the remote API; the admin
\* view runs only for the role 'admin', any other request with a token being
\* answered 403.
C14_Original ==
    req.route \in {"index", "admin", "api_proxy"} =>
        /\ req.ran => Has(req.before, TOKEN_SESSION_KEY)
        /\ ~Has(req.before, TOKEN_SESSION_KEY) =>
              /\ ~req.ran
              /\ req.status = 302
              /\ req.body = "redirect:login"
              /\ req.api_calls = 0
        /\ (req.route = "admin" /\ req.ran) => req.before[USER_SESSION_KEY] = "admin"
        /\ (req.route = "admin" /\ Has(req.before, TOKEN_SESSION_KEY)
               /\ req.before[USER_SESSION_KEY] # "admin") => req.status = 403

\* C15 as stated: after a 401 of the remote API for a proxied path other than
\* '/auth/login' the session holds neither the token nor the user info, so
\* that the next request to a protected route is redirected; a 401 for
\* '/auth/login' leaves the session as it was.
C15_Original ==
    (req.route = "api_proxy" /\ req.api = 401) =>
        IF req.path # "/auth/login"
          THEN ~Has(session, TOKEN_SESSION_KEY) /\ ~Has(session, USER_SESSION_KEY)
          ELSE session = req.before

\* C19: at every request boundary the session holds the token key exactly
\* when it holds the user-info key: a login answered 200 sets both, a failed
\* login changes neither, logout leaves neither whatever was there, and the
\* 401 handling of proxy_request pops both.
C19_SessionKeysPaired ==
    /\ Has(session, TOKEN_SESSION_KEY) <=> Has(session, USER_SESSION_KEY)
    /\ Has(req.after, TOKEN_SESSION_KEY) <=> Has(req.after, USER_SESSION_KEY)
    /\ (req.route = "login" /\ req.api = 200) =>
          (Has(session, TOKEN_SESSION_KEY) /\ Has(session, USER_SESSION_KEY))
    /\ (req.route = "login" /\ req.api # 200) => session = req.before
    /\ req.route = "logout" => session = EmptySession
    /\ (req.route = "api_proxy" /\ req.api = 401 /\ req.path # "/auth/login") =>
          req.after = EmptySession

\* A logged-in session was logged out.
C19_Witness ==
    /\ req.route = "logout"
    /\ Has(req.before, TOKEN_SESSION_KEY)
    /\ Has(req.before, USER_SESSION_KEY)
    /\ session = EmptySession

\* C20 as stated: whatever proxy_request returns, api_proxy gets a (body,
\* status) pair and answers with that status and that body.
C20_Original ==
    (req.route = "api_proxy" /\ req.ran) =>
        /\ req.result.shape = "pair"
        /\ req.status = req.result.status
        /\ req.body = req.result.body

====
